---- MODULE Spec2Model ----
(***************************************************************************)
(* Model of src/src/queryutils.ts: the format-string codec (formatQuery,   *)
(* scanQuery) and the packed-BCD helpers (BCD2int, int2BCD).               *)
(*                                                                         *)
(* A format string is a sequence of one-character strings.  A byte buffer  *)
(* is a sequence of numbers in 0..255.  A JavaScript string is the         *)
(* sequence of its UTF-16 code units.  A JSBI big integer is a sign and a  *)
(* little-endian sequence of 30-bit digits without leading zero digits.    *)
(***************************************************************************)
EXTENDS Integers, Sequences, FiniteSets, TLC

(***************************************************************************)
(* JSBI: arbitrary-precision integers, 30-bit digits.                      *)
(***************************************************************************)
DigitBits == 30

DigitBase == 2 ^ DigitBits

Big(neg, d) == [neg |-> neg, d |-> d]

\* The array whose elements are those of the function f on 1..n.
ArrayOf(f) == f \o <<>>

BigZero == Big(FALSE, <<>>)

Digit(d, i) == IF i >= 1 /\ i <= Len(d) THEN d[i] ELSE 0

RECURSIVE Trim(_)
Trim(d) ==
    IF Len(d) = 0 THEN <<>>
    ELSE IF d[Len(d)] = 0 THEN Trim(SubSeq(d, 1, Len(d) - 1))
    ELSE ArrayOf(d)

RECURSIVE BitAnd(_, _)
BitAnd(a, b) ==
    IF a = 0 \/ b = 0 THEN 0
    ELSE (a % 2) * (b % 2) + 2 * BitAnd(a \div 2, b \div 2)

RECURSIVE BitOr(_, _)
BitOr(a, b) ==
    IF a = 0 THEN b
    ELSE IF b = 0 THEN a
    ELSE (IF a % 2 = 1 \/ b % 2 = 1 THEN 1 ELSE 0) + 2 * BitOr(a \div 2, b \div 2)

RECURSIVE AbsAddOne(_)
AbsAddOne(d) ==
    IF d = <<>> THEN <<1>>
    ELSE IF d[1] = DigitBase - 1 THEN <<0>> \o AbsAddOne(Tail(d))
    ELSE <<d[1] + 1>> \o Tail(d)

RECURSIVE AbsSubOne(_)
AbsSubOne(d) ==
    IF d = <<>> THEN <<>>
    ELSE IF d[1] = 0 THEN <<DigitBase - 1>> \o AbsSubOne(Tail(d))
    ELSE Trim(<<d[1] - 1>> \o Tail(d))

AbsShiftRight(d, shift) ==
    LET ds == shift \div DigitBits
        bs == shift % DigitBits
        n  == Len(d) - ds
    IN  IF n <= 0 THEN <<>>
        ELSE Trim([i \in 1..n |->
                 (d[i + ds] \div (2 ^ bs))
                 + (Digit(d, i + ds + 1) % (2 ^ bs)) * (2 ^ (DigitBits - bs))])

AbsShiftLeft(d, shift) ==
    LET ds == shift \div DigitBits
        bs == shift % DigitBits
        n  == Len(d) + ds + 1
    IN  Trim([i \in 1..n |->
            (Digit(d, i - ds) % (2 ^ (DigitBits - bs))) * (2 ^ bs)
            + (Digit(d, i - ds - 1) \div (2 ^ (DigitBits - bs)))])

MustRoundDown(d, shift) ==
    LET ds == shift \div DigitBits
        bs == shift % DigitBits
    IN  \/ \E i \in 1..ds : Digit(d, i) # 0
        \/ Digit(d, ds + 1) % (2 ^ bs) # 0

AbsAnd(a, b) ==
    LET n == IF Len(a) < Len(b) THEN Len(a) ELSE Len(b)
    IN  Trim([i \in 1..n |-> BitAnd(a[i], b[i])])

AbsAndNot(a, b) ==
    Trim([i \in 1..Len(a) |-> a[i] - BitAnd(a[i], Digit(b, i))])

AbsOr(a, b) ==
    LET n == IF Len(a) < Len(b) THEN Len(b) ELSE Len(a)
    IN  Trim([i \in 1..n |-> BitOr(Digit(a, i), Digit(b, i))])

\* JSBI.BigInt(number) for a number of magnitude below 2^30.
BigFromNumber(n) ==
    IF n = 0 THEN BigZero
    ELSE IF n > 0 THEN Big(FALSE, <<n>>)
    ELSE Big(TRUE, <<0 - n>>)

\* JSBI.toNumber for a value of at most one digit.
toNumber(v) ==
    IF v.d = <<>> THEN 0
    ELSE IF v.neg THEN 0 - v.d[1] ELSE v.d[1]

\* JSBI.signedRightShift(x, y), y >= 0: floor(x / 2^y).
signedRightShift(x, y) ==
    IF y.d = <<>> \/ x.d = <<>> THEN x
    ELSE LET s == toNumber(y)
             shifted == AbsShiftRight(x.d, s)
         IN  IF ~x.neg THEN Big(FALSE, shifted)
             ELSE IF MustRoundDown(x.d, s) THEN Big(TRUE, AbsAddOne(shifted))
             ELSE Big(TRUE, shifted)

\* JSBI.leftShift(x, y), y >= 0.
leftShift(x, y) ==
    IF y.d = <<>> \/ x.d = <<>> THEN x
    ELSE Big(x.neg, AbsShiftLeft(x.d, toNumber(y)))

\* JSBI.bitwiseAnd in two's complement.
bitwiseAnd(x, y) ==
    IF ~x.neg /\ ~y.neg THEN Big(FALSE, AbsAnd(x.d, y.d))
    ELSE IF x.neg /\ ~y.neg THEN Big(FALSE, AbsAndNot(y.d, AbsSubOne(x.d)))
    ELSE IF ~x.neg /\ y.neg THEN Big(FALSE, AbsAndNot(x.d, AbsSubOne(y.d)))
    ELSE Big(TRUE, AbsAddOne(AbsOr(AbsSubOne(x.d), AbsSubOne(y.d))))

\* JSBI.bitwiseOr of two non-negative values (the decoder's accumulator and a
\* shifted byte are never negative).
bitwiseOr(x, y) == Big(FALSE, AbsOr(x.d, y.d))

(***************************************************************************)
(* JavaScript values: arguments of formatQuery and results of scanQuery.   *)
(***************************************************************************)
IntV(b)  == [t |-> "int", neg |-> b.neg, d |-> b.d]

StrV(c)  == [t |-> "str", neg |-> FALSE, d |-> c]

BytesV(c) == [t |-> "bytes", neg |-> FALSE, d |-> c]

\* What Array.prototype.shift returns on an empty argument list.
UndefinedV == [t |-> "undefined", neg |-> FALSE, d |-> <<>>]

\* What Array.prototype.shift returns on an empty number[]: no byte.
Undef == -1

NoError == "none"

\* JSBI.BigInt(value): a JSBI or an integral number converts; undefined is a
\* TypeError; the empty string is 0 and a string with no digits a SyntaxError.
CanBigInt(value) ==
    \/ value.t = "int"
    \/ value.t = "str" /\ value.d = <<>>

BigIntOf(value) == IF value.t = "int" THEN Big(value.neg, value.d) ELSE BigZero

BigIntError(value) ==
    IF value.t = "undefined" THEN "TypeError: Cannot convert undefined to a BigInt"
    ELSE "SyntaxError: Cannot convert to a BigInt"

\* utils.assertString: the value must be a string.
IsString(value) == value.t = "str"

\* utils.stringToCharCodeArray: the UTF-16 code unit of each character.
stringToCharCodeArray(s) == ArrayOf([i \in 1..Len(s) |-> s[i]])

\* String.fromCharCode(...bytes): one character per element.
fromCharCode(bytes) == ArrayOf([i \in 1..Len(bytes) |-> bytes[i] % 65536])

\* new Uint8Array(result): every element is reduced modulo 2^8.
ToUint8Array(result) == ArrayOf([i \in 1..Len(result) |-> result[i] % 256])

FORMAT_TYPE_LEN_DICT == [c \in {"b", "w", "d", "q"} |->
    CASE c = "b" -> 1 [] c = "w" -> 2 [] c = "d" -> 4 [] c = "q" -> 8]

HexDigits == <<"0", "1", "2", "3", "4", "5", "6", "7", "8", "9",
               "a", "b", "c", "d", "e", "f">>

HexUpper == <<"0", "1", "2", "3", "4", "5", "6", "7", "8", "9",
              "A", "B", "C", "D", "E", "F">>

IsHex(c) == \E i \in 1..16 : HexDigits[i] = c \/ HexUpper[i] = c

HexValue(c) == (CHOOSE i \in 1..16 : HexDigits[i] = c \/ HexUpper[i] = c) - 1

\* Number.parseInt(half + char, 16) for two hexadecimal digits.
ParseInt16(half, char) == HexValue(half) * 16 + HexValue(char)

(***************************************************************************)
(* formatQuery                                                             *)
(***************************************************************************)
NullHalf == "null"

\* IntBytes with the least significant byte first.
IntBytesLittleEndian(numberValue, width) ==
    ArrayOf([i \in 1..width |->
        toNumber(bitwiseAnd(signedRightShift(numberValue, BigFromNumber((i - 1) * 8)),
                            BigFromNumber(255)))])

\* Lines 24-28: the bytes of numberValue, most significant first.
IntBytes(numberValue, width) ==
    ArrayOf([i \in 1..width |->
        toNumber(bitwiseAnd(signedRightShift(numberValue, BigFromNumber((width - i) * 8)),
                            BigFromNumber(255)))])

\* StringBytes whose prefix does not count the terminator of 's'.
StringBytesPrefixWithoutTerminator(stringValue, char) ==
    LET stringLength == Len(stringValue)
    IN  <<(stringLength \div 256) % 256, stringLength % 256>>
        \o stringToCharCodeArray(stringValue)
        \o (IF char = "s" THEN <<0>> ELSE <<>>)

\* Lines 31-40: the length prefix, the character codes and, for 's', a zero.
StringBytes(stringValue, char) ==
    LET stringLength == Len(stringValue) + (IF char = "s" THEN 1 ELSE 0)
    IN  <<(stringLength \div 256) % 256, stringLength % 256>>
        \o stringToCharCodeArray(stringValue)
        \o (IF char = "s" THEN <<0>> ELSE <<>>)

FormatInit(args) ==
    [result |-> <<>>, half |-> NullHalf, argStack |-> args, args |-> args,
     escaped |-> FALSE, err |-> NoError]

FormatFail(st, msg) == [st EXCEPT !.err = msg]

\* Lines 19-53: the character after an escape marker.
FormatEscaped(st, char) ==
    LET value == IF st.argStack = <<>> THEN UndefinedV ELSE Head(st.argStack)
        s1 == [st EXCEPT !.escaped = FALSE,
                         !.argStack = IF @ = <<>> THEN <<>> ELSE Tail(@)]
    IN  IF char \in DOMAIN FORMAT_TYPE_LEN_DICT THEN
            IF CanBigInt(value)
            THEN [s1 EXCEPT !.result =
                      @ \o IntBytes(BigIntOf(value), FORMAT_TYPE_LEN_DICT[char])]
            ELSE FormatFail(s1, BigIntError(value))
        ELSE IF char = "x" \/ char = "s" THEN
            IF IsString(value)
            THEN [s1 EXCEPT !.result = @ \o StringBytes(value.d, char)]
            ELSE FormatFail(s1, "Expected a string")
        ELSE IF char = "*" THEN
            IF value.t = "str"
            THEN [s1 EXCEPT !.result = @ \o stringToCharCodeArray(value.d)]
            ELSE IF value.t = "bytes"
            THEN [s1 EXCEPT !.result = @ \o value.d]
            ELSE FormatFail(s1, "Unexpected type for value")
        ELSE FormatFail(s1, "Unrecognized format char")

\* FormatChar where a space also drops the pending half digit.
FormatCharSpaceDropsHalf(st, char) ==
    IF st.escaped THEN FormatEscaped(st, char)
    ELSE IF char = "%" THEN
        IF st.half = NullHalf THEN [st EXCEPT !.escaped = TRUE]
        ELSE FormatFail(st, "Expected half to be null")
    ELSE IF char = " " THEN [st EXCEPT !.half = NullHalf]
    ELSE IF st.half = NullHalf THEN [st EXCEPT !.half = char]
    ELSE [st EXCEPT !.result = Append(@, ParseInt16(st.half, char)),
                    !.half = NullHalf]

\* Lines 18-68: one iteration of the loop over the format.
FormatChar(st, char) ==
    IF st.escaped THEN FormatEscaped(st, char)
    ELSE IF char = "%" THEN
        IF st.half = NullHalf THEN [st EXCEPT !.escaped = TRUE]
        ELSE FormatFail(st, "Expected half to be null")
    ELSE IF char = " " THEN st
    ELSE IF st.half = NullHalf THEN [st EXCEPT !.half = char]
    ELSE [st EXCEPT !.result = Append(@, ParseInt16(st.half, char)),
                    !.half = NullHalf]

RECURSIVE FormatLoop(_, _, _)
FormatLoop(st, format, i) ==
    IF i > Len(format) \/ st.err # NoError THEN st
    ELSE FormatLoop(FormatChar(st, format[i]), format, i + 1)

\* The outcome of formatQuery(format, ...args): the buffer, or the error thrown,
\* and the caller's argument list as the call leaves it.
formatQuery(format, args) ==
    LET st == FormatLoop(FormatInit(args), format, 1)
    IN  IF st.err = NoError
        THEN [ok |-> TRUE, err |-> NoError, bytes |-> ToUint8Array(st.result),
              args |-> st.args]
        ELSE [ok |-> FALSE, err |-> st.err, bytes |-> <<>>, args |-> st.args]

(***************************************************************************)
(* scanQuery                                                               *)
(*                                                                         *)
(* inputStack is the local array; caller is the content of the object the  *)
(* caller passed, and aliased says that inputStack is that very object     *)
(* (line 78), so that what is done to one is done to the other.            *)
(***************************************************************************)
ScanInit(query, isArrayBuffer) ==
    [result |-> <<>>, inputStack |-> query, caller |-> query,
     aliased |-> ~isArrayBuffer, initialLength |-> Len(query),
     half |-> NullHalf, escaped |-> FALSE, err |-> NoError,
     offset |-> 0, expected |-> 0, actual |-> 0]

ScanFail(st, msg) == [st EXCEPT !.err = msg]

\* What inputStack.shift() returns.
ScanHead(st) == IF st.inputStack = <<>> THEN Undef ELSE Head(st.inputStack)

\* What inputStack.shift() does to the array.
ScanShift(st) ==
    IF st.inputStack = <<>> THEN st
    ELSE [st EXCEPT !.inputStack = Tail(@),
                    !.caller = IF st.aliased THEN Tail(st.inputStack) ELSE @]

\* ToInt32 of a shifted-off element: undefined converts to 0.
ToInt32(b) == IF b = Undef THEN 0 ELSE b

\* Lines 92-98: width bytes, most significant first, or-ed into value.
RECURSIVE ScanIntLoop(_, _, _)
ScanIntLoop(st, byte, value) ==
    IF byte < 0 THEN [st EXCEPT !.result = Append(@, IntV(value))]
    ELSE IF ScanHead(st) = Undef
    THEN ScanFail(st, "TypeError: Cannot convert undefined to a BigInt")
    ELSE LET v == leftShift(BigFromNumber(ScanHead(st)), BigFromNumber(byte * 8))
         IN  ScanIntLoop(ScanShift(st), byte - 1, bitwiseOr(value, v))

\* ScanString that pushes the whole run for 's' too.
ScanStringKeepsTerminator(st, char) ==
    LET b1 == ScanHead(st)
        s1 == ScanShift(st)
        b2 == ScanHead(s1)
        s2 == ScanShift(s1)
        length == BitOr(ToInt32(b1) * 256, ToInt32(b2))
        n == Len(s2.inputStack)
        k == IF length < n THEN length ELSE n
        kept == SubSeq(s2.inputStack, 1, k)
        newInputStack == SubSeq(s2.inputStack, k + 1, n)
    IN  [s2 EXCEPT !.result = Append(@, StrV(fromCharCode(kept))),
                   !.caller = IF s2.aliased THEN kept ELSE @,
                   !.inputStack = newInputStack,
                   !.aliased = FALSE]

\* Lines 100-108: the length prefix, then splice(length) keeps the first length
\* elements in the old array and hands the others to a new one.
ScanString(st, char) ==
    LET b1 == ScanHead(st)
        s1 == ScanShift(st)
        b2 == ScanHead(s1)
        s2 == ScanShift(s1)
        length == BitOr(ToInt32(b1) * 256, ToInt32(b2))
        n == Len(s2.inputStack)
        k == IF length < n THEN length ELSE n
        kept == SubSeq(s2.inputStack, 1, k)
        newInputStack == SubSeq(s2.inputStack, k + 1, n)
        value == fromCharCode(kept)
        pushed == IF char = "s" THEN SubSeq(value, 1, Len(value) - 1) ELSE value
    IN  [s2 EXCEPT !.result = Append(@, StrV(pushed)),
                   !.caller = IF s2.aliased THEN kept ELSE @,
                   !.inputStack = newInputStack,
                   !.aliased = FALSE]

\* Lines 110 and 113: splice(0) empties the array.
ScanRest(st, char) ==
    LET all == st.inputStack
        value == IF char = "*" THEN StrV(fromCharCode(all)) ELSE BytesV(all)
    IN  [st EXCEPT !.result = Append(@, value),
                   !.inputStack = <<>>,
                   !.caller = IF st.aliased THEN <<>> ELSE @]

\* Lines 85-119: the character after an escape marker.
ScanEscaped(st, char) ==
    LET s1 == [st EXCEPT !.escaped = FALSE]
    IN  IF char = "?" THEN ScanShift(s1)
        ELSE IF char \in DOMAIN FORMAT_TYPE_LEN_DICT
        THEN ScanIntLoop(s1, FORMAT_TYPE_LEN_DICT[char] - 1, BigZero)
        ELSE IF char = "s" \/ char = "x" THEN ScanString(s1, char)
        ELSE IF char = "*" \/ char = "#" THEN ScanRest(s1, char)
        ELSE ScanFail(s1, "Unrecognized format char")

\* Lines 131-137: a literal byte is compared with the next input byte.
ScanLiteral(st, char) ==
    LET inputValue == ScanHead(st)
        s1 == ScanShift(st)
        formatValue == ParseInt16(st.half, char)
    IN  IF formatValue # inputValue
        THEN [s1 EXCEPT !.err = "Format and input mismatch",
                        !.offset = st.initialLength - Len(s1.inputStack) - 1,
                        !.expected = formatValue,
                        !.actual = inputValue]
        ELSE [s1 EXCEPT !.half = NullHalf]

\* Lines 84-139: one iteration of the loop over the format.
ScanChar(st, char) ==
    IF st.escaped THEN ScanEscaped(st, char)
    ELSE IF char = "%" THEN
        IF st.half = NullHalf THEN [st EXCEPT !.escaped = TRUE]
        ELSE ScanFail(st, "Assertion failed")
    ELSE IF char = " " THEN st
    ELSE IF st.half = NullHalf THEN [st EXCEPT !.half = char]
    ELSE ScanLiteral(st, char)

RECURSIVE ScanLoop(_, _, _)
ScanLoop(st, format, i) ==
    IF i > Len(format) \/ st.err # NoError THEN st
    ELSE ScanLoop(ScanChar(st, format[i]), format, i + 1)

\* ScanEnd without the assertion.
ScanEndUnchecked(st) == st

\* Line 140: the input must be exhausted when the format ends.
ScanEnd(st) ==
    IF st.err # NoError THEN st
    ELSE IF Len(st.inputStack) = 0 THEN st
    ELSE ScanFail(st, "Bytes remaining to parse")

\* The outcome of scanQuery(query, format): the values, or the error thrown with
\* what it reports; remaining is inputStack.length when the call ends and query
\* the content of the caller's object as the call leaves it.
scanQuery(query, isArrayBuffer, format) ==
    LET st == ScanEnd(ScanLoop(ScanInit(query, isArrayBuffer), format, 1))
    IN  [ok |-> st.err = NoError, err |-> st.err,
         values |-> IF st.err = NoError THEN st.result ELSE <<>>,
         offset |-> st.offset, expected |-> st.expected, actual |-> st.actual,
         remaining |-> Len(st.inputStack), query |-> st.caller]

(***************************************************************************)
(* BCD2int and int2BCD.  A JavaScript bitwise operator works on the 32-bit *)
(* two's-complement value of its operands: the numbers here are that       *)
(* signed value.                                                           *)
(***************************************************************************)
MinInt32 == -2147483647 - 1

\* n << s for 0 <= n < 2^31 and 0 <= s < 31: bit 31-s of n becomes the sign.
ShiftLeft32(n, s) ==
    IF s = 0 THEN n
    ELSE LET hi == 2 ^ (31 - s)
         IN  (n % hi) * (2 ^ s) + (IF (n \div hi) % 2 = 1 THEN MinInt32 ELSE 0)

Low31(a) == IF a < 0 THEN (a + 2147483647) + 1 ELSE a

\* a | b on 32-bit signed values.
Or32(a, b) ==
    BitOr(Low31(a), Low31(b)) + (IF a < 0 \/ b < 0 THEN MinInt32 ELSE 0)

\* bcd >>> 4: the unsigned shift of the 32-bit value.
UnsignedShiftRight4(bcd) ==
    IF bcd >= 0 THEN bcd \div 16 ELSE (bcd \div 16) + 2 ^ 28

RECURSIVE BCD2intLoop(_, _, _)
BCD2intLoop(bcd, value, nibble) ==
    IF bcd = 0 THEN value
    ELSE BCD2intLoop(UnsignedShiftRight4(bcd),
                     value + (bcd % 16) * (10 ^ nibble), nibble + 1)

BCD2int(bcd) == BCD2intLoop(bcd, 0, 0)

RECURSIVE int2BCDLoop(_, _, _)
int2BCDLoop(value, bcd, nibble) ==
    IF value = 0 THEN bcd
    ELSE int2BCDLoop(value \div 10,
                     Or32(bcd, ShiftLeft32(value % 10, 4 * nibble)), nibble + 1)

\* The outcome of int2BCD(value, length), 0 <= value and 0 <= length.
int2BCD(value, length) ==
    IF length > 4
    THEN [ok |-> FALSE, err |-> "Unsupported length. Max allowed is 4", bcd |-> 0]
    ELSE IF value > 10 ^ (length * 2) - 1
    THEN [ok |-> FALSE, err |-> "Value cannot fit in length bytes in BCD", bcd |-> 0]
    ELSE [ok |-> TRUE, err |-> NoError, bcd |-> int2BCDLoop(value, 0, 0)]

(***************************************************************************)
(* The inputs the calls are made with.                                     *)
(***************************************************************************)
\* A format is made of at most MaxPieces pieces.
MaxPieces == 2

\* A string argument has at most MaxStrLen characters, or is a long one.
MaxStrLen == 2

\* A byte sequence handed to scanQuery by itself has at most MaxQueryLen bytes.
MaxQueryLen == 2

\* int2BCD is called with a length of at most MaxBcdLength.
MaxBcdLength == 5

\* The longest run of equal elements the state holds element by element.
RunWritten == 8

\* The first value the two-byte length prefix of lines 35-36 cannot hold.
LengthPrefixLimit == 65536

\* The decimal digits of the largest value int2BCD takes (line 157: 4 bytes).
BcdDigits == 8

TokenPieces == {<<"%", c>> : c \in {"b", "w", "d", "q", "x", "s", "*", "#", "?"}}

\* A literal byte 0xAF, a separator, a lone escape marker, a lone hex digit.
Pieces == TokenPieces \cup {<<"a", "F">>, <<" ">>, <<"%">>, <<"0">>}

RECURSIVE FormatsUpTo(_)
FormatsUpTo(n) ==
    IF n = 0 THEN {<<>>}
    ELSE LET S == FormatsUpTo(n - 1) IN S \cup {f \o p : f \in S, p \in Pieces}

Formats == FormatsUpTo(MaxPieces)

\* The characters of a format that follow an escape marker, in order.
RECURSIVE TokenChars(_, _, _)
TokenChars(format, i, escaped) ==
    IF i > Len(format) THEN <<>>
    ELSE IF escaped THEN <<format[i]>> \o TokenChars(format, i + 1, FALSE)
    ELSE TokenChars(format, i + 1, format[i] = "%")

\* The string of n characters "hi\0\xFFhi\0\xFF...".
StrPattern == <<104, 105, 0, 255>>

StrOfLen(n) == ArrayOf([i \in 1..n |-> StrPattern[((i - 1) % Len(StrPattern)) + 1]])

\* The string of n characters "hhh...".
StrRepeat(n) == ArrayOf([i \in 1..n |-> StrPattern[1]])

\* The non-negative big integer whose big-endian bytes are given (Horner).
RECURSIVE AbsTimes256Plus(_, _)
AbsTimes256Plus(d, carry) ==
    IF d = <<>> THEN (IF carry = 0 THEN <<>> ELSE <<carry>>)
    ELSE <<(d[1] % (2 ^ (DigitBits - 8))) * 256 + carry>>
         \o AbsTimes256Plus(Tail(d), d[1] \div (2 ^ (DigitBits - 8)))

RECURSIVE BytesToAbs(_, _)
BytesToAbs(bytes, acc) ==
    IF bytes = <<>> THEN acc
    ELSE BytesToAbs(Tail(bytes), AbsTimes256Plus(acc, Head(bytes)))

BytesToBig(bytes) == Big(FALSE, Trim(BytesToAbs(bytes, <<>>)))

\* 2^bits - 1.
MaxOfBits(bits) ==
    Big(FALSE, [i \in 1..(bits \div DigitBits) |-> DigitBase - 1]
               \o (IF bits % DigitBits = 0 THEN <<>>
                   ELSE <<2 ^ (bits % DigitBits) - 1>>))

\* For a token of width w: 0x0102..0w, the maximum 2^(8w)-1, 2^(8w)+1 and -2.
IntChoices(w) ==
    { IntV(BytesToBig(ArrayOf([i \in 1..w |-> i]))),
      IntV(MaxOfBits(8 * w)),
      IntV(Big(FALSE, AbsAddOne(AbsAddOne(MaxOfBits(8 * w).d)))),
      IntV(Big(TRUE, <<2>>)) }

\* The empty string and one of MaxStrLen 8-bit characters, a string with a
\* 16-bit character, and a number.
StrChoices ==
    {StrV(<<>>), StrV(StrOfLen(MaxStrLen)), StrV(<<353>>), IntV(Big(FALSE, <<7>>))}

ArgChoices(c) ==
    IF c \in DOMAIN FORMAT_TYPE_LEN_DICT THEN IntChoices(FORMAT_TYPE_LEN_DICT[c])
    ELSE IF c = "x" \/ c = "s" THEN StrChoices
    ELSE IF c = "*" THEN {StrV(StrOfLen(MaxStrLen)), BytesV(<<1, 2>>)}
    ELSE {IntV(Big(FALSE, <<7>>))}

RECURSIVE ArgProduct(_)
ArgProduct(tokens) ==
    IF tokens = <<>> THEN {<<>>}
    ELSE {<<v>> \o rest : v \in ArgChoices(Head(tokens)),
                          rest \in ArgProduct(Tail(tokens))}

LongArgLists(format) ==
    IF format = <<"%", "x">> \/ format = <<"%", "s">>
    THEN {<<StrV(StrRepeat(n))>> : n \in (LengthPrefixLimit - 2)..LengthPrefixLimit}
    ELSE {}

\* One argument per token, of the token's kind, or the last one missing.
ArgListsFor(format) ==
    LET tokens == TokenChars(format, 1, FALSE)
    IN  ArgProduct(tokens)
        \cup (IF tokens = <<>> THEN {}
              ELSE ArgProduct(SubSeq(tokens, 1, Len(tokens) - 1)))
        \cup LongArgLists(format)

ByteSamples == {0, 175}

RECURSIVE QueriesUpTo(_)
QueriesUpTo(n) ==
    IF n = 0 THEN {<<>>}
    ELSE LET S == QueriesUpTo(n - 1) IN S \cup {Append(q, b) : q \in S, b \in ByteSamples}

Queries == QueriesUpTo(MaxQueryLen)

\* 0, every d*10^k, every d*10^k + (10^k - 1), and 10^8 (one too large).
BcdValues ==
    {0, 1234, 10 ^ BcdDigits}
    \cup {d * (10 ^ k) : d \in 1..9, k \in 0..(BcdDigits - 1)}
    \cup {d * (10 ^ k) + (10 ^ k - 1) : d \in 1..9, k \in 0..(BcdDigits - 1)}

(***************************************************************************)
(* The caller: one call of one of the four functions, and for formatQuery  *)
(* a second call that scans the buffer it returned.                        *)
(***************************************************************************)
VARIABLES
    call,           \* the function called last
    format,         \* the format of the call
    heldArgs,       \* formatQuery's argument list before the call
    heldEncoded,    \* the outcome of formatQuery
    heldQuery,      \* scanQuery's byte sequence before the call
    isArrayBuffer,  \* whether query is an ArrayBuffer (or a number[])
    heldScanned,    \* the outcome of scanQuery
    bcdValue,       \* int2BCD's value
    bcdLength,      \* int2BCD's length
    bcdResult,      \* the outcome of int2BCD
    bcdBack         \* what BCD2int returns for that outcome

vars == <<call, format, heldArgs, heldEncoded, heldQuery, isArrayBuffer, heldScanned,
          bcdValue, bcdLength, bcdResult, bcdBack>>

\* The state holds strings, arrays and buffers with every run of more than
\* RunWritten equal elements written as <<-n, v>>: n times the element v.
\* Runs(seq, lo, hi) is the sequence of runs <<v, n>> of seq[lo..hi].
RECURSIVE Runs(_, _, _)
Runs(seq, lo, hi) ==
    IF lo = hi THEN <<<<seq[lo], 1>>>>
    ELSE LET mid == (lo + hi) \div 2
             L == Runs(seq, lo, mid)
             R == Runs(seq, mid + 1, hi)
         IN  IF L[Len(L)][1] = R[1][1]
             THEN SubSeq(L, 1, Len(L) - 1)
                  \o <<<<R[1][1], L[Len(L)][2] + R[1][2]>>>>
                  \o Tail(R)
             ELSE L \o R

RECURSIVE WriteRuns(_)
WriteRuns(runs) ==
    IF runs = <<>> THEN <<>>
    ELSE LET v == runs[1][1]
             n == runs[1][2]
         IN  (IF n > RunWritten THEN <<-n, v>> ELSE ArrayOf([i \in 1..n |-> v]))
             \o WriteRuns(Tail(runs))

Hold(seq) ==
    IF Len(seq) <= RunWritten THEN seq ELSE WriteRuns(Runs(seq, 1, Len(seq)))

RECURSIVE Held(_)
Held(held) ==
    IF held = <<>> THEN <<>>
    ELSE IF held[1] < 0
         THEN ArrayOf([i \in 1..(-held[1]) |-> held[2]]) \o Held(Tail(Tail(held)))
         ELSE <<held[1]>> \o Held(Tail(held))

HoldValues(values) ==
    ArrayOf([i \in 1..Len(values) |->
        IF values[i].t \in {"str", "bytes"}
        THEN [values[i] EXCEPT !.d = Hold(@)] ELSE values[i]])

HeldValues(values) ==
    ArrayOf([i \in 1..Len(values) |->
        IF values[i].t \in {"str", "bytes"}
        THEN [values[i] EXCEPT !.d = Held(@)] ELSE values[i]])

\* The arguments, the buffers and the outcomes themselves.
args == HeldValues(heldArgs)

encoded == [heldEncoded EXCEPT !.bytes = Held(@), !.args = HeldValues(@)]

query == Held(heldQuery)

scanned == [heldScanned EXCEPT !.values = HeldValues(@), !.query = Held(@)]

NotEncoded == [ok |-> FALSE, err |-> "not called", bytes |-> <<>>, args |-> <<>>]

NotScanned == [ok |-> FALSE, err |-> "not called", values |-> <<>>, offset |-> 0,
               expected |-> 0, actual |-> 0, remaining |-> 0, query |-> <<>>]

NotBcd == [ok |-> FALSE, err |-> "not called", bcd |-> 0]

Init ==
    /\ call = "idle"
    /\ format = <<>>
    /\ heldArgs = <<>>
    /\ heldEncoded = NotEncoded
    /\ heldQuery = <<>>
    /\ isArrayBuffer = TRUE
    /\ heldScanned = NotScanned
    /\ bcdValue = 0
    /\ bcdLength = 0
    /\ bcdResult = NotBcd
    /\ bcdBack = 0

FormatQueryCall ==
    /\ call = "idle"
    /\ \E f \in Formats : \E a \in ArgListsFor(f) :
        /\ format' = f
        /\ heldArgs' = HoldValues(a)
        /\ heldEncoded' = [formatQuery(f, a) EXCEPT !.bytes = Hold(@),
                                                 !.args = HoldValues(@)]
    /\ call' = "formatQuery"
    /\ UNCHANGED <<heldQuery, isArrayBuffer, heldScanned, bcdValue, bcdLength,
                   bcdResult, bcdBack>>

ScanCall(q, ab, f) ==
    /\ heldQuery' = Hold(q)
    /\ isArrayBuffer' = ab
    /\ heldScanned' = [scanQuery(q, ab, f) EXCEPT !.values = HoldValues(@),
                                                 !.query = Hold(@)]
    /\ call' = "scanQuery"

\* scanQuery on a number[] of the caller's own.
ScanQueryCall ==
    /\ call = "idle"
    /\ \E f \in Formats : \E q \in Queries :
        /\ format' = f
        /\ ScanCall(q, FALSE, f)
    /\ UNCHANGED <<heldArgs, heldEncoded, bcdValue, bcdLength, bcdResult, bcdBack>>

\* scanQuery(formatQuery(format, ...args), format), on the ArrayBuffer returned.
ScanEncoded ==
    /\ call = "formatQuery"
    /\ encoded.ok
    /\ ScanCall(encoded.bytes, TRUE, format)
    /\ UNCHANGED <<format, heldArgs, heldEncoded, bcdValue, bcdLength, bcdResult, bcdBack>>

\* scanQuery on the encoded buffer without its last byte.
ScanTruncated ==
    /\ call = "formatQuery"
    /\ encoded.ok
    /\ encoded.bytes # <<>>
    /\ ScanCall(SubSeq(encoded.bytes, 1, Len(encoded.bytes) - 1), TRUE, format)
    /\ UNCHANGED <<format, heldArgs, heldEncoded, bcdValue, bcdLength, bcdResult, bcdBack>>

\* scanQuery on the encoded buffer and one more byte.
ScanExtended ==
    /\ call = "formatQuery"
    /\ encoded.ok
    /\ ScanCall(Append(encoded.bytes, 1), TRUE, format)
    /\ UNCHANGED <<format, heldArgs, heldEncoded, bcdValue, bcdLength, bcdResult, bcdBack>>

Int2BCDCall ==
    /\ call = "idle"
    /\ \E v \in BcdValues : \E l \in 0..MaxBcdLength :
        /\ bcdValue' = v
        /\ bcdLength' = l
        /\ bcdResult' = int2BCD(v, l)
    /\ call' = "int2BCD"
    /\ UNCHANGED <<format, heldArgs, heldEncoded, heldQuery, isArrayBuffer, heldScanned, bcdBack>>

\* BCD2int on what int2BCD returned.
BCD2intCall ==
    /\ call = "int2BCD"
    /\ bcdResult.ok
    /\ bcdBack' = BCD2int(bcdResult.bcd)
    /\ call' = "BCD2int"
    /\ UNCHANGED <<format, heldArgs, heldEncoded, heldQuery, isArrayBuffer, heldScanned,
                   bcdValue, bcdLength, bcdResult>>

Next ==
    \/ FormatQueryCall
    \/ ScanQueryCall
    \/ ScanEncoded
    \/ ScanTruncated
    \/ ScanExtended
    \/ Int2BCDCall
    \/ BCD2intCall

Spec == Init /\ [][Next]_vars

\* The calls of the codec with a format, without the damaged buffers.
NextCodec ==
    \/ FormatQueryCall
    \/ ScanQueryCall
    \/ ScanEncoded

SpecCodec == Init /\ [][NextCodec]_vars

(***************************************************************************)
(* What the claims speak of.                                               *)
(***************************************************************************)
\* The non-negative value v mod 2^bits of a big integer v.
AbsTruncate(d, bits) ==
    Trim([i \in 1..Len(d) |->
            IF i <= bits \div DigitBits THEN d[i]
            ELSE IF i = (bits \div DigitBits) + 1 THEN d[i] % (2 ^ (bits % DigitBits))
            ELSE 0])

ModPow2(v, bits) ==
    LET t == AbsTruncate(v.d, bits)
        all == MaxOfBits(bits).d
    IN  IF ~v.neg \/ t = <<>> THEN Big(FALSE, t)
        ELSE Big(FALSE, AbsAddOne(Trim([i \in 1..Len(all) |-> all[i] - Digit(t, i)])))

InRange(v, bits) == ~v.neg /\ AbsShiftRight(v.d, bits) = <<>>

IsWidthToken(c) == c \in {"b", "w", "d", "q"}

IsStringToken(c) == c \in {"x", "s"}

\* The format is a sequence of typed tokens %b %w %d %q %x %s and nothing else.
TypedOnly(f) ==
    /\ Len(f) % 2 = 0
    /\ \A i \in 1..Len(f) :
        IF i % 2 = 1 THEN f[i] = "%" ELSE IsWidthToken(f[i]) \/ IsStringToken(f[i])

EightBitClean(str) == \A i \in 1..Len(str) : str[i] >= 0 /\ str[i] <= 255

\* One argument per token: an integer in [0, 2^(8*width)) or an 8-bit string.
ArgsMatch(f, a) ==
    /\ Len(a) * 2 = Len(f)
    /\ \A i \in 1..Len(a) :
        LET c == f[2 * i]
        IN  IF IsWidthToken(c)
            THEN a[i].t = "int"
                 /\ InRange(Big(a[i].neg, a[i].d), 8 * FORMAT_TYPE_LEN_DICT[c])
            ELSE a[i].t = "str" /\ EightBitClean(a[i].d)

\* Every string argument has a length its two-byte prefix can hold.
PrefixHolds(f, a) ==
    \A i \in 1..Len(a) :
        /\ f[2 * i] = "s" => Len(a[i].d) + 1 < LengthPrefixLimit
        /\ f[2 * i] = "x" => Len(a[i].d) < LengthPrefixLimit

\* The last call scanned the buffer formatQuery returned, with the same format.
IsRoundTrip == call = "scanQuery" /\ encoded.ok /\ query = encoded.bytes

\* C1 as stated: scanQuery(formatQuery(format, args), format) returns args, for
\* every format of typed tokens only and every argument list matching them.
C1_RoundTripAnyString ==
    (TypedOnly(format) /\ ArgsMatch(format, args)) =>
        /\ call = "formatQuery" => encoded.ok
        /\ IsRoundTrip => scanned.ok /\ scanned.values = args

\* C1 as amended: the same round trip, for string arguments of at most 65534
\* characters under %s and at most 65535 under %x.
C1_RoundTrip ==
    (TypedOnly(format) /\ ArgsMatch(format, args) /\ PrefixHolds(format, args)) =>
        /\ call = "formatQuery" => encoded.ok
        /\ IsRoundTrip => scanned.ok /\ scanned.values = args

C1_Witness ==
    /\ IsRoundTrip
    /\ format = <<"%", "s", "%", "q">>
    /\ ArgsMatch(format, args)
    /\ args[1].d = <<104, 105>>
    /\ args[2] = IntV(MaxOfBits(64))
    /\ scanned.ok
    /\ scanned.values = args

\* C2: scanQuery returns a result only when no input byte is left, a call that
\* ends with a byte left returns none, and the buffer formatQuery returned,
\* followed by one more byte, fails with "Bytes remaining" under a format that
\* has no take-the-rest token.
C2_Exhaustion ==
    call = "scanQuery" =>
        /\ scanned.ok => scanned.remaining = 0
        /\ scanned.remaining > 0 => ~scanned.ok /\ scanned.values = <<>>
        /\ ( /\ encoded.ok
             /\ query = Append(encoded.bytes, 1)
             /\ \A i \in 1..Len(format) : format[i] # "*" )
           => scanned.err = "Bytes remaining to parse" /\ scanned.remaining >= 1

C2_Witness ==
    /\ call = "scanQuery"
    /\ format = <<"%", "w">>
    /\ encoded.ok
    /\ query = Append(encoded.bytes, 1)
    /\ Len(query) = 3
    /\ scanned.err = "Bytes remaining to parse"
    /\ scanned.remaining = 1
    /\ scanned.values = <<>>

\* The bytes a format of fixed-size items consumes: the width of %b %w %d %q,
\* one for %? and one for each literal hex pair; -1 when the format has another
\* token or is not well formed.
RECURSIVE FixedDemand(_, _, _, _)
FixedDemand(f, i, mode, n) ==
    IF i > Len(f) THEN (IF mode = "plain" THEN n ELSE -1)
    ELSE IF mode = "escaped" THEN
        IF IsWidthToken(f[i])
        THEN FixedDemand(f, i + 1, "plain", n + FORMAT_TYPE_LEN_DICT[f[i]])
        ELSE IF f[i] = "?" THEN FixedDemand(f, i + 1, "plain", n + 1)
        ELSE -1
    ELSE IF f[i] = "%" THEN
        (IF mode = "half" THEN -1 ELSE FixedDemand(f, i + 1, "escaped", n))
    ELSE IF f[i] = " " THEN FixedDemand(f, i + 1, mode, n)
    ELSE IF mode = "half" THEN FixedDemand(f, i + 1, "plain", n + 1)
    ELSE FixedDemand(f, i + 1, "half", n)

\* C3: scanQuery fails on a buffer one byte shorter than the format consumes:
\* the encoded buffer without its last byte, or any buffer one byte short of
\* what a format of fixed-size items takes.
C3_UnderflowFails ==
    call = "scanQuery" =>
        /\ ( /\ encoded.ok
             /\ encoded.bytes # <<>>
             /\ query = SubSeq(encoded.bytes, 1, Len(encoded.bytes) - 1)
             /\ \A i \in 1..Len(format) : format[i] # "*" )
           => ~scanned.ok
        /\ Len(query) + 1 = FixedDemand(format, 1, "plain", 0) => ~scanned.ok

\* The first two characters of the format that are not spaces are hex digits.
RECURSIVE StartsWithLiteral(_, _, _)
StartsWithLiteral(f, i, seen) ==
    IF i > Len(f) THEN FALSE
    ELSE IF f[i] = " " THEN StartsWithLiteral(f, i + 1, seen)
    ELSE IF ~IsHex(f[i]) THEN FALSE
    ELSE IF seen = 1 THEN TRUE
    ELSE StartsWithLiteral(f, i + 1, 1)

\* C4: a mismatch reports an offset i, 0 <= i < input length, at which the
\* input holds the actual byte reported; the offset is 0 for a literal at the
\* start of the format; and scanQuery gets past the literal of the format "aF"
\* exactly when the first input byte is 0xAF.
C4_LiteralOffset ==
    call = "scanQuery" =>
        /\ scanned.err = "Format and input mismatch" =>
            /\ StartsWithLiteral(format, 1, 0) => scanned.offset = 0
            /\ scanned.offset >= 0
            /\ scanned.offset < Len(query)
            /\ query[scanned.offset + 1] = scanned.actual
            /\ scanned.expected # scanned.actual
        /\ format = <<"a", "F">> =>
            (scanned.err # "Format and input mismatch"
                <=> (query # <<>> /\ query[1] = 175))

\* C5: a call leaves the caller's argument list and byte sequence as they were.
C5_Purity ==
    /\ call = "formatQuery" => encoded.args = args
    /\ call = "scanQuery" => scanned.query = query

\* C6: for a token of width w and an integer argument v, formatQuery emits w
\* bytes that are the big-endian representation of v mod 2^(8w), and scanQuery
\* of those bytes with the same token yields v mod 2^(8w): v itself for every v
\* in range, the maximum 2^(8w)-1 included.
C6_FixedWidthBigEndian ==
    \A c \in DOMAIN FORMAT_TYPE_LEN_DICT :
        (format = <<"%", c>> /\ Len(args) = 1 /\ args[1].t = "int") =>
            LET w == FORMAT_TYPE_LEN_DICT[c]
                v == Big(args[1].neg, args[1].d)
            IN  /\ call = "formatQuery" =>
                    /\ encoded.ok
                    /\ Len(encoded.bytes) = w
                    /\ \A i \in 1..w : encoded.bytes[i] \in 0..255
                    /\ BytesToBig(encoded.bytes) = ModPow2(v, 8 * w)
                /\ IsRoundTrip =>
                    /\ scanned.ok
                    /\ scanned.values = <<IntV(ModPow2(v, 8 * w))>>
                    /\ InRange(v, 8 * w) => scanned.values = args

C6_Witness ==
    /\ IsRoundTrip
    /\ format = <<"%", "q">>
    /\ args = <<IntV(MaxOfBits(64))>>
    /\ encoded.bytes = <<255, 255, 255, 255, 255, 255, 255, 255>>
    /\ scanned.ok
    /\ scanned.values = args

\* The format is the single token %c and the argument one 8-bit string.
OneString(c) ==
    /\ format = <<"%", c>>
    /\ Len(args) = 1
    /\ args[1].t = "str"
    /\ EightBitClean(args[1].d)

\* The wire format of one string: the two-byte big-endian value of its length
\* (plus one for %s), its character codes, and for %s a zero byte.
StringWire(c, str, bytes) ==
    LET n == Len(str)
        extra == IF c = "s" THEN 1 ELSE 0
    IN  /\ Len(bytes) = 2 + n + extra
        /\ bytes[1] \in 0..255
        /\ bytes[2] \in 0..255
        /\ bytes[1] * 256 + bytes[2] = n + extra
        /\ SubSeq(bytes, 3, n + 2) = str
        /\ c = "s" => bytes[n + 3] = 0

StringTokenHolds(c) ==
    /\ call = "formatQuery" => encoded.ok /\ StringWire(c, args[1].d, encoded.bytes)
    /\ IsRoundTrip => scanned.ok /\ scanned.values = <<StrV(args[1].d)>>

\* scanQuery with the single token %c, on a prefix and the run it announces,
\* pushes the run for %x, and the run without its last character for %s.
RunDecoded(c) ==
    ( /\ call = "scanQuery"
      /\ format = <<"%", c>>
      /\ Len(query) >= 2
      /\ query[1] * 256 + query[2] = Len(query) - 2 )
    => /\ scanned.ok
       /\ scanned.values =
            <<StrV(SubSeq(query, 3, Len(query) - (IF c = "s" THEN 1 ELSE 0)))>>

\* C7 as stated: the wire format of %s and %x and its decoding, for every 8-bit
\* string.
C7_StringWireAnyLength ==
    \A c \in {"x", "s"} :
        /\ OneString(c) => StringTokenHolds(c)
        /\ RunDecoded(c)

\* C7 as amended: the same, for strings of at most 65534 characters under %s
\* and at most 65535 under %x.
C7_StringWire ==
    \A c \in {"x", "s"} :
        /\ (OneString(c) /\ PrefixHolds(format, args)) => StringTokenHolds(c)
        /\ RunDecoded(c)

C7_Witness ==
    /\ IsRoundTrip
    /\ OneString("s")
    /\ args[1].d = <<104, 105>>
    /\ encoded.bytes = <<0, 3, 104, 105, 0>>
    /\ scanned.values = <<StrV(<<104, 105>>)>>

\* The k-th decimal digit of a value and the k-th nibble of a word.
DecimalDigit(value, k) == (value \div (10 ^ k)) % 10

Nibble(word, k) == (word \div (16 ^ k)) % 16

\* C8: for a length in 1..4 and 0 <= value <= 10^(2*length)-1, int2BCD returns
\* the non-negative integer whose k-th nibble is the k-th decimal digit of
\* value, and BCD2int of it is value.
C8_Int2BCD ==
    ( /\ call \in {"int2BCD", "BCD2int"}
      /\ bcdLength \in 1..4
      /\ bcdValue >= 0
      /\ bcdValue <= 10 ^ (2 * bcdLength) - 1 )
    => /\ bcdResult.ok
       /\ bcdResult.bcd >= 0
       /\ \A k \in 0..(BcdDigits - 1) :
            Nibble(bcdResult.bcd, k) = DecimalDigit(bcdValue, k)
       /\ call = "BCD2int" => bcdBack = bcdValue

\* The format breaks the grammar: (a) an escape marker while a half digit is
\* pending, (b) an escape marker followed by a character that is no token of
\* the direction, (c) an escape marker at the end, (d) a half digit at the end.
RECURSIVE Malformed(_, _, _, _)
Malformed(f, i, mode, recognized) ==
    IF i > Len(f) THEN mode # "plain"
    ELSE IF mode = "escaped" THEN
        (IF f[i] \in recognized THEN Malformed(f, i + 1, "plain", recognized)
         ELSE TRUE)
    ELSE IF f[i] = "%" THEN
        (IF mode = "half" THEN TRUE ELSE Malformed(f, i + 1, "escaped", recognized))
    ELSE IF f[i] = " " THEN Malformed(f, i + 1, mode, recognized)
    ELSE IF mode = "half" THEN Malformed(f, i + 1, "plain", recognized)
    ELSE Malformed(f, i + 1, "half", recognized)

EncodeTokens == {"b", "w", "d", "q", "x", "s", "*"}

DecodeTokens == EncodeTokens \cup {"?", "#"}

\* C9: formatQuery and scanQuery fail for every format that breaks the grammar.
C9_MalformedRejected ==
    /\ (call = "formatQuery" /\ Malformed(format, 1, "plain", EncodeTokens))
        => ~encoded.ok
    /\ (call = "scanQuery" /\ Malformed(format, 1, "plain", DecodeTokens))
        => ~scanned.ok

\* The format with a space inserted after its first p characters.
InsertSpace(f, p) == SubSeq(f, 1, p) \o <<" ">> \o SubSeq(f, p + 1, Len(f))

\* The first p characters of the format end with an escape marker that still
\* waits for its type character.
RECURSIVE EscapePending(_, _, _, _)
EscapePending(f, p, i, escaped) ==
    IF i > p THEN escaped
    ELSE IF escaped THEN EscapePending(f, p, i + 1, FALSE)
    ELSE EscapePending(f, p, i + 1, f[i] = "%")

\* C10 as stated, on the formats that obey the grammar: a space inserted
\* anywhere in the format changes neither the outcome (success or failure) nor
\* the result of formatQuery and scanQuery.
C10_SpaceAnywhere ==
    \A p \in 0..Len(format) :
        /\ (call = "formatQuery" /\ ~Malformed(format, 1, "plain", EncodeTokens)) =>
            LET r == formatQuery(InsertSpace(format, p), args)
            IN  r.ok = encoded.ok /\ r.bytes = encoded.bytes
        /\ (call = "scanQuery" /\ ~Malformed(format, 1, "plain", DecodeTokens)) =>
            LET r == scanQuery(query, isArrayBuffer, InsertSpace(format, p))
            IN  r.ok = scanned.ok /\ r.values = scanned.values

\* C10 as amended: a space inserted anywhere but between an escape marker and
\* its type character changes neither the outcome nor the result.
C10_SpaceOutsideEscape ==
    \A p \in 0..Len(format) :
        ~EscapePending(format, p, 1, FALSE) =>
            /\ call = "formatQuery" =>
                formatQuery(InsertSpace(format, p), args) = encoded
            /\ call = "scanQuery" =>
                scanQuery(query, isArrayBuffer, InsertSpace(format, p)) = scanned

C10_Witness ==
    /\ call = "scanQuery"
    /\ format = <<"a", "F", "%", "b">>
    /\ scanned.ok
    /\ scanQuery(query, isArrayBuffer, <<"a", " ", "F", "%", "b">>) = scanned
    /\ scanQuery(query, isArrayBuffer, <<"a", "F", " ", "%", "b">>) = scanned
    /\ ~scanQuery(query, isArrayBuffer, <<"a", "F", "%", " ", "b">>).ok

====
